---- MODULE Spec2Model ----
(***************************************************************************)
(* Model of app/core/config.py: the module-load sequence (NCCL preload     *)
(* fallback, torch import, settings classes, the legacy Config view) and   *)
(* the lru_cache'd accessor get_settings() as called by the importing      *)
(* thread and by worker threads afterwards.                                *)
(*                                                                         *)
(* Strings are sequences of atoms.  Environment-variable names and the     *)
(* values of the settings fields are sequences of single characters, so    *)
(* that str.lower(), prefix tests and the "__" split act on them as they   *)
(* do in Python.  File-system paths and exception messages are sequences   *)
(* of longer tokens; concatenation, "in" and dirname act on the tokens.    *)
(***************************************************************************)
EXTENDS Integers, Sequences, FiniteSets, TLC

VARIABLES
  environ,     \* os.environ: sequence of [name, value], in block order
  start,       \* os.environ as the process started (history)
  dotenv,      \* the KEY=VALUE lines of ./.env, in file order
  fs,          \* what the file-system probes of the preload step see
  machine,     \* os.uname().machine
  available,   \* what torch.cuda.is_available() reports on this host
  torch,       \* what "import torch" does in this process
  pc,          \* position of the importing thread and of each worker
  local,       \* per caller: the instance get_settings() is about to return
  calls,       \* per worker: completed get_settings() calls
  heap,        \* every Settings instance constructed so far
  built,       \* per instance: the environ/dotenv it was read from (history)
  cache,       \* the lru_cache entry of get_settings: 0, or an index of heap
  returned,    \* the instances successful get_settings() calls returned
  Config,      \* the legacy class attributes: <<>> until the class exists
  exc,         \* the exception module load ended with (type "" = none)
  envChanges,  \* os.environ writes made by the application after load
  seen         \* per caller: envChanges at its last cache lookup (history)

vars == <<environ, start, dotenv, fs, machine, available, torch, pc, local,
          calls, heap, built, cache, returned, Config, exc, envChanges, seen>>

\* ------------------------------------------------------------------ bounds

MaxEnvVars == 2      \* settings variables in the live environment at start
MaxFileVars == 1     \* lines of the .env file
MaxStrLen == 2       \* length of an ENVIRONMENT value
MaxDirEntries == 2   \* entries of torch's lib directory
MaxCalls == 1        \* get_settings() calls per worker thread
MaxEnvChanges == 1   \* os.environ writes after load

Workers == {"w1", "w2"}
Callers == {"main"} \cup Workers

\* ----------------------------------------------------------------- strings

UpperChars == <<"A", "B", "C", "D", "E", "F", "G", "H", "I", "J", "K", "L", "M",
                "N", "O", "P", "Q", "R", "S", "T", "U", "V", "W", "X", "Y", "Z">>
LowerChars == <<"a", "b", "c", "d", "e", "f", "g", "h", "i", "j", "k", "l", "m",
                "n", "o", "p", "q", "r", "s", "t", "u", "v", "w", "x", "y", "z">>

IsUpperChar(c) == \E i \in DOMAIN UpperChars : UpperChars[i] = c

LowerChar(c) ==
  IF IsUpperChar(c)
  THEN LowerChars[CHOOSE i \in DOMAIN UpperChars : UpperChars[i] = c]
  ELSE c

\* str.lower()
Lower(s) == [i \in DOMAIN s |-> LowerChar(s[i])]

\* str.startswith()
StartsWith(s, p) == Len(s) >= Len(p) /\ SubSeq(s, 1, Len(p)) = p

\* "marker in message", on the tokens of the message
Contains(msg, marker) == \E i \in DOMAIN msg : msg[i] = marker

\* needle occurs in hay as a contiguous run
IsInfix(needle, hay) ==
  \E i \in 0..(Len(hay) - Len(needle)) : SubSeq(hay, i + 1, i + Len(needle)) = needle

SetMax(S) == CHOOSE x \in S : \A y \in S : y <= x

\* ------------------------------------------------------------ names, values

LD_PRELOAD == <<"L", "D", "_", "P", "R", "E", "L", "O", "A", "D">>
LD_LIBRARY_PATH == <<"L", "D", "_", "L", "I", "B", "R", "A", "R", "Y", "_", "P", "A", "T", "H">>
DB_URL == <<"D", "B", "_", "U", "R", "L">>
DEVICE == <<"D", "E", "V", "I", "C", "E">>
COMPUTE_TYPE == <<"C", "O", "M", "P", "U", "T", "E", "_", "T", "Y", "P", "E">>
LOG_LEVEL == <<"L", "O", "G", "_", "L", "E", "V", "E", "L">>
ENVIRONMENT == <<"E", "N", "V", "I", "R", "O", "N", "M", "E", "N", "T">>
database == <<"d", "a", "t", "a", "b", "a", "s", "e">>
whisper == <<"w", "h", "i", "s", "p", "e", "r">>
logging == <<"l", "o", "g", "g", "i", "n", "g">>
env_nested_delimiter == <<"_", "_">>

Device_cpu == <<"c", "p", "u">>
Device_cuda == <<"c", "u", "d", "a">>
Device == {Device_cpu, Device_cuda}
ComputeType_int8 == <<"i", "n", "t", "8">>
ComputeType_float16 == <<"f", "l", "o", "a", "t", "1", "6">>
ComputeType_float32 == <<"f", "l", "o", "a", "t", "3", "2">>
ComputeType == {ComputeType_int8, ComputeType_float16, ComputeType_float32}

DefaultDbUrl == <<"sqlite:///records.db">>
DefaultLogLevel == <<"I", "N", "F", "O">>
DefaultEnvironment == <<"p", "r", "o", "d", "u", "c", "t", "i", "o", "n">>

torch_lib == <<"/usr/local/lib/python3.11/dist-packages/torch/lib">>
system_nccl == <<"/usr/lib/", machine, "-linux-gnu", "/", "libnccl.so.2">>
cuda_lib64 == <<"/usr/local/cuda/lib64">>
NotSet == <<"not set">>

\* -------------------------------------------------------------- os.environ

\* the positions of the variables of an environment whose name is key; with
\* case_sensitive false, pydantic-settings lower-cases the names first
Find(envv, key, case_sensitive) ==
  {i \in DOMAIN envv :
     (IF case_sensitive THEN envv[i].name ELSE Lower(envv[i].name)) = key}

\* dict lookup after {k or k.lower(): v for k, v in env.items()}: a later
\* entry overwrites an earlier one.  <<>> when absent, <<value>> otherwise.
EnvGet(envv, key, case_sensitive) ==
  LET I == Find(envv, key, case_sensitive)
  IN IF I = {} THEN <<>> ELSE <<envv[SetMax(I)].value>>

\* os.environ.get(name)
OsGet(name) == EnvGet(environ, name, TRUE)

\* os.environ.get(name, default)
OsGetDefault(name, default) ==
  IF OsGet(name) = <<>> THEN default ELSE OsGet(name)[1]

\* os.environ[name] = value: in place when the name exists, appended otherwise
EnvSet(envv, name, value) ==
  IF Find(envv, name, TRUE) = {}
  THEN Append(envv, [name |-> name, value |-> value])
  ELSE [i \in DOMAIN envv |->
          IF envv[i].name = name THEN [name |-> name, value |-> value] ELSE envv[i]]

\* -------------------------------------------------------- the preload step

\* fnmatch(name, "libnccl*.so*")
MatchesNcclPattern(name) ==
  /\ Len(name) >= 2
  /\ name[1] = "libnccl"
  /\ \E i \in 2..Len(name) : name[i] = ".so"

\* os.path.join(torch_lib, name)
JoinTorchLib(name) == torch_lib \o <<"/">> \o name

\* glob.glob(os.path.join(torch_lib, "libnccl*.so*")): the matching entries in
\* directory order; a dangling symlink is listed like any other entry
nccl_files == SelectSeq(fs.listing, LAMBDA e : MatchesNcclPattern(e.name))

\* os.path.dirname(path): what precedes the last separator
Dirname(path) ==
  LET seps == {i \in DOMAIN path : path[i] = "/"}
  IN IF seps = {} THEN <<>> ELSE SubSeq(path, 1, SetMax(seps) - 1)

\* mutant of nccl_lib: torch's bundled library is tried before the system one
nccl_lib_bundled_first ==
  IF fs.torch_lib /\ nccl_files # <<>>
  THEN <<[path |-> JoinTorchLib(nccl_files[1].name), exists |-> nccl_files[1].exists]>>
  ELSE IF fs.system_nccl
       THEN <<[path |-> system_nccl, exists |-> TRUE]>>
       ELSE <<>>

\* lines 20-28: <<>> for None, else <<[path, exists]>>
nccl_lib ==
  IF fs.system_nccl
  THEN <<[path |-> system_nccl, exists |-> TRUE]>>
  ELSE IF fs.torch_lib /\ nccl_files # <<>>
       THEN <<[path |-> JoinTorchLib(nccl_files[1].name),
               exists |-> nccl_files[1].exists]>>
       ELSE <<>>

\* line 12
PreloadGuard == OsGet(LD_PRELOAD) = <<>> \/ OsGet(LD_PRELOAD)[1] = <<>>

\* line 35
NewLdLibraryPath(lib) ==
  Dirname(lib) \o <<":">> \o torch_lib \o <<":">> \o cuda_lib64 \o <<":">>
    \o OsGetDefault(LD_LIBRARY_PATH, <<>>)

\* os.environ after lines 12-35
PreloadEnviron ==
  IF PreloadGuard /\ nccl_lib # <<>> /\ nccl_lib[1].exists
  THEN EnvSet(EnvSet(environ, LD_PRELOAD, nccl_lib[1].path),
              LD_LIBRARY_PATH, NewLdLibraryPath(nccl_lib[1].path))
  ELSE environ

PreloadStep ==
  /\ pc["main"] = "preload"
  /\ environ' = PreloadEnviron
  /\ pc' = [pc EXCEPT !["main"] = "import"]
  /\ UNCHANGED <<start, dotenv, fs, machine, available, torch, local, calls,
                 heap, built, cache, returned, Config, exc, envChanges, seen>>

\* ------------------------------------------------------------ import torch

NoException == [type |-> "", msg |-> <<>>, cause |-> <<>>, original |-> FALSE]

\* the exception classes "import torch" is modelled to raise, with their bases
ExceptionMro ==
  [ImportError |-> {"ImportError"},
   ModuleNotFoundError |-> {"ModuleNotFoundError", "ImportError"},
   OSError |-> {"OSError"},
   RuntimeError |-> {"RuntimeError"},
   AttributeError |-> {"AttributeError"}]

\* line 39: except (ImportError, OSError, RuntimeError)
IsCaught(type) == ExceptionMro[type] \cap {"ImportError", "OSError", "RuntimeError"} # {}

\* mutant of IsNcclError: only the first marker is looked for
IsNcclErrorOneMarker(error_msg) == Contains(error_msg, "ncclGroupSimulateEnd")

\* line 42
IsNcclError(error_msg) ==
  Contains(error_msg, "ncclGroupSimulateEnd") \/ Contains(error_msg, "undefined symbol")

\* lines 43-54: the text of the new ImportError
NcclMessage(error_msg) ==
  <<"PyTorch import failed due to NCCL compatibility issue: ">> \o error_msg
    \o <<"\nThis usually indicates ...\nDiagnostic information:\n", "  LD_PRELOAD: ">>
    \o OsGetDefault(LD_PRELOAD, NotSet)
    \o <<"\n", "  LD_LIBRARY_PATH: ">>
    \o OsGetDefault(LD_LIBRARY_PATH, NotSet)
    \o <<"\n", "  Python attempted to set LD_PRELOAD but it may be too late.\nPlease ensure ...">>

\* the exception that leaves lines 37-55 when the import raises
TorchFailure ==
  IF IsCaught(torch.type) /\ IsNcclError(torch.msg)
  THEN [type |-> "ImportError", msg |-> NcclMessage(torch.msg),
        cause |-> <<[type |-> torch.type, msg |-> torch.msg]>>, original |-> FALSE]
  ELSE [type |-> torch.type, msg |-> torch.msg, cause |-> <<>>, original |-> TRUE]

ImportTorch ==
  /\ pc["main"] = "import"
  /\ IF torch.ok
     THEN /\ pc' = [pc EXCEPT !["main"] = "classes"]
          /\ exc' = exc
     ELSE /\ pc' = [pc EXCEPT !["main"] = "failed"]
          /\ exc' = TorchFailure
  /\ UNCHANGED <<environ, start, dotenv, fs, machine, available, torch, local,
                 calls, heap, built, cache, returned, Config, envChanges, seen>>

\* ------------------------------------------------------- settings sources

\* EnvSettingsSource.explode_env_vars for one nested group: the variables
\* named <group>__<FIELD> as the keyword arguments {FIELD: value}
explode_env_vars(envv, group) ==
  LET prefix == group \o env_nested_delimiter
      hits == SelectSeq(envv, LAMBDA e : StartsWith(e.name, prefix))
  IN [i \in DOMAIN hits |->
        [name |-> SubSeq(hits[i].name, Len(prefix) + 1, Len(hits[i].name)),
         value |-> hits[i].value]]

\* What Settings' sources give a nested group: env over dotenv (deep_update),
\* both case-sensitive (line 155) and split at "__" (line 157)
GroupKwargs(envv, file, group) ==
  explode_env_vars(file, group) \o explode_env_vars(envv, group)

\* What a group's own sources give a field.  The groups declare no
\* model_config, so they are BaseSettings with the defaults: init keyword
\* arguments first, then the live environment matched case-insensitively;
\* no env file, no nested delimiter.
FieldValue(kwargs, envv, field) ==
  IF EnvGet(kwargs, field, TRUE) # <<>>
  THEN EnvGet(kwargs, field, TRUE)
  ELSE EnvGet(envv, Lower(field), FALSE)

\* lines 63-73
DatabaseSettings(kwargs, envv) ==
  LET url == FieldValue(kwargs, envv, DB_URL)
  IN [DB_URL |-> IF url = <<>> THEN DefaultDbUrl ELSE url[1]]

\* lines 132-146
LoggingSettings(kwargs, envv) ==
  LET level == FieldValue(kwargs, envv, LOG_LEVEL)
  IN [LOG_LEVEL |-> IF level = <<>> THEN DefaultLogLevel ELSE level[1]]

\* lines 92-94
DEVICE_default_factory == IF available THEN Device_cuda ELSE Device_cpu

\* mutant of COMPUTE_TYPE_default_factory: float16 whatever the probe says
COMPUTE_TYPE_default_float16 == ComputeType_float16

\* lines 98-100
COMPUTE_TYPE_default_factory ==
  IF available THEN ComputeType_float16 ELSE ComputeType_int8

\* mutant of validate_compute_type_for_cpu: the instance is left as given
validate_compute_type_unchanged(self) == self

\* lines 123-129
validate_compute_type_for_cpu(self) ==
  IF self.DEVICE = Device_cpu /\ self.COMPUTE_TYPE # ComputeType_int8
  THEN [self EXCEPT !.COMPUTE_TYPE = ComputeType_int8]
  ELSE self

\* the enum-typed fields accept the members' values only
ParseDevice(v) == IF v \in Device THEN <<v>> ELSE <<>>
ParseComputeType(v) == IF v \in ComputeType THEN <<v>> ELSE <<>>

\* lines 76-129: <<>> when validation fails, <<instance>> otherwise
WhisperSettings(kwargs, envv) ==
  LET d == FieldValue(kwargs, envv, DEVICE)
      c == FieldValue(kwargs, envv, COMPUTE_TYPE)
      dev == IF d = <<>> THEN <<DEVICE_default_factory>> ELSE ParseDevice(d[1])
      ct == IF c = <<>> THEN <<COMPUTE_TYPE_default_factory>> ELSE ParseComputeType(c[1])
  IN IF dev = <<>> \/ ct = <<>>
     THEN <<>>
     ELSE <<validate_compute_type_for_cpu([DEVICE |-> dev[1], COMPUTE_TYPE |-> ct[1]])>>

\* mutant of normalize_environment: the value is kept in the case given
normalize_environment_keep_case(v) == IF v # <<>> THEN v ELSE DefaultEnvironment

\* lines 174-178
normalize_environment(v) == IF v # <<>> THEN Lower(v) ELSE DefaultEnvironment

\* lines 160-163 with 174-178: Settings' own field, from the live environment
\* first and the .env file second; the validator runs on a given value only
SettingsEnvironment(envv, file) ==
  LET given == IF EnvGet(envv, ENVIRONMENT, TRUE) # <<>>
               THEN EnvGet(envv, ENVIRONMENT, TRUE)
               ELSE EnvGet(file, ENVIRONMENT, TRUE)
  IN IF given = <<>> THEN DefaultEnvironment ELSE normalize_environment(given[1])

\* lines 149-178: Settings(): <<>> when validation fails, <<instance>> otherwise
Settings(envv, file) ==
  LET w == WhisperSettings(GroupKwargs(envv, file, whisper), envv)
  IN IF w = <<>>
     THEN <<>>
     ELSE <<[ENVIRONMENT |-> SettingsEnvironment(envv, file),
             database |-> DatabaseSettings(GroupKwargs(envv, file, database), envv),
             whisper |-> w[1],
             logging |-> LoggingSettings(GroupKwargs(envv, file, logging), envv)]>>

ValidationError ==
  [type |-> "ValidationError", msg |-> <<"validation error for WhisperSettings">>,
   cause |-> <<>>, original |-> TRUE]

\* ------------------------------------------------------------ get_settings

\* mutant of ConfigGetSettings: the module loads without calling get_settings()
ConfigWithoutGetSettings ==
  /\ pc["main"] = "classes"
  /\ pc' = [pc EXCEPT !["main"] = "loaded"]
  /\ UNCHANGED <<environ, start, dotenv, fs, machine, available, torch, local,
                 calls, heap, built, cache, returned, Config, exc, envChanges, seen>>

\* line 197: the class body of Config calls get_settings()
ConfigGetSettings ==
  /\ pc["main"] = "classes"
  /\ pc' = [pc EXCEPT !["main"] = "call"]
  /\ UNCHANGED <<environ, start, dotenv, fs, machine, available, torch, local,
                 calls, heap, built, cache, returned, Config, exc, envChanges, seen>>

\* mutant of GsLookup: the function is not memoized, every call misses
GsLookupUncached(c) ==
  /\ pc[c] = "call"
  /\ pc' = [pc EXCEPT ![c] = "miss"]
  /\ seen' = [seen EXCEPT ![c] = envChanges]
  /\ UNCHANGED <<environ, start, dotenv, fs, machine, available, torch, local,
                 calls, heap, built, cache, returned, Config, exc, envChanges>>

\* lru_cache wrapper, before the call: a hit returns the cached object
GsLookup(c) ==
  /\ pc[c] = "call"
  /\ IF cache # 0
     THEN /\ pc' = [pc EXCEPT ![c] = "ret"]
          /\ local' = [local EXCEPT ![c] = cache]
     ELSE /\ pc' = [pc EXCEPT ![c] = "miss"]
          /\ local' = local
  /\ seen' = [seen EXCEPT ![c] = envChanges]
  /\ UNCHANGED <<environ, start, dotenv, fs, machine, available, torch, calls,
                 heap, built, cache, returned, Config, exc, envChanges>>

\* line 189: Settings(); an exception leaves get_settings with nothing cached
GsConstruct(c) ==
  /\ pc[c] = "miss"
  /\ LET s == Settings(environ, dotenv)
     IN IF s # <<>>
        THEN /\ heap' = Append(heap, s[1])
             /\ built' = Append(built, [environ |-> environ, dotenv |-> dotenv])
             /\ local' = [local EXCEPT ![c] = Len(heap) + 1]
             /\ pc' = [pc EXCEPT ![c] = "store"]
             /\ UNCHANGED <<exc, calls>>
        ELSE /\ pc' = [pc EXCEPT ![c] = IF c = "main" THEN "failed" ELSE "idle"]
             /\ exc' = IF c = "main" THEN ValidationError ELSE exc
             /\ calls' = IF c = "main" THEN calls ELSE [calls EXCEPT ![c] = @ + 1]
             /\ UNCHANGED <<heap, built, local>>
  /\ UNCHANGED <<environ, start, dotenv, fs, machine, available, torch, cache,
                 returned, Config, envChanges, seen>>

\* lru_cache wrapper, after the call: the result is stored unless the key was
\* added while the call ran; the caller gets its own result either way
GsStore(c) ==
  /\ pc[c] = "store"
  /\ cache' = IF cache = 0 THEN local[c] ELSE cache
  /\ pc' = [pc EXCEPT ![c] = "ret"]
  /\ UNCHANGED <<environ, start, dotenv, fs, machine, available, torch, local,
                 calls, heap, built, returned, Config, exc, envChanges, seen>>

\* lines 200-210: the class attributes copied from the returned instance
ConfigAttributes(s) ==
  [DEVICE |-> s.whisper.DEVICE, COMPUTE_TYPE |-> s.whisper.COMPUTE_TYPE,
   ENVIRONMENT |-> s.ENVIRONMENT, LOG_LEVEL |-> s.logging.LOG_LEVEL,
   DB_URL |-> s.database.DB_URL]

\* lines 194-210 after get_settings() returned: the module is loaded
ConfigDefine ==
  /\ pc["main"] = "ret"
  /\ returned' = returned \cup {local["main"]}
  /\ Config' = <<ConfigAttributes(heap[local["main"]])>>
  /\ pc' = [pc EXCEPT !["main"] = "loaded"]
  /\ UNCHANGED <<environ, start, dotenv, fs, machine, available, torch, local,
                 calls, heap, built, cache, exc, envChanges, seen>>

\* a thread of the application calls get_settings(): the module is imported
WorkerCall(w) ==
  /\ pc["main"] = "loaded"
  /\ pc[w] = "idle"
  /\ calls[w] < MaxCalls
  /\ pc' = [pc EXCEPT ![w] = "call"]
  /\ UNCHANGED <<environ, start, dotenv, fs, machine, available, torch, local,
                 calls, heap, built, cache, returned, Config, exc, envChanges, seen>>

\* get_settings() returns to the thread
WorkerReturn(w) ==
  /\ pc[w] = "ret"
  /\ returned' = returned \cup {local[w]}
  /\ calls' = [calls EXCEPT ![w] = @ + 1]
  /\ pc' = [pc EXCEPT ![w] = "idle"]
  /\ UNCHANGED <<environ, start, dotenv, fs, machine, available, torch, local,
                 heap, built, cache, Config, exc, envChanges, seen>>

\* the os.environ writes the application makes once it runs
EnvWrites ==
  {[name |-> DEVICE, value |-> Device_cpu],
   [name |-> DEVICE, value |-> Device_cuda],
   [name |-> ENVIRONMENT, value |-> <<"Q", "a">>]}

SetEnv ==
  /\ pc["main"] = "loaded"
  /\ envChanges < MaxEnvChanges
  /\ \E e \in EnvWrites :
       /\ EnvGet(environ, e.name, TRUE) # <<e.value>>
       /\ environ' = EnvSet(environ, e.name, e.value)
  /\ envChanges' = envChanges + 1
  /\ UNCHANGED <<start, dotenv, fs, machine, available, torch, pc, local, calls,
                 heap, built, cache, returned, Config, exc, seen>>

\* ------------------------------------------------------------------ inputs

Var(name, value) == [name |-> name, value |-> value]

Names(s) == {s[i].name : i \in DOMAIN s}

\* the sequences of at most n entries of pool, no name twice
RECURSIVE VarSeqs(_, _)
VarSeqs(pool, n) ==
  IF n = 0
  THEN {<<>>}
  ELSE LET shorter == VarSeqs(pool, n - 1)
       IN shorter \cup
          UNION {{Append(s, e) : e \in {x \in pool : x.name \notin Names(s)}} :
                 s \in shorter}

\* the strings over alphabet of length at most n
RECURSIVE Strings(_, _)
Strings(alphabet, n) ==
  IF n = 0
  THEN {<<>>}
  ELSE LET shorter == Strings(alphabet, n - 1)
       IN shorter \cup {Append(s, a) : s \in shorter, a \in alphabet}

Nested(group, field) == group \o env_nested_delimiter \o field

Bogus == <<"b", "o", "g", "u", "s">>
FileUrl == <<"file:///tmp/x.db">>
LiveUrl == <<"file:///tmp/y.db">>
LowerUrl == <<"file:///tmp/z.db">>
NestedUrl == <<"file:///tmp/w.db">>
CustomPreload == <<"/opt/nccl/libnccl.so.2">>
PriorLdPath == <<"/opt/lib">>

NoFs == [system_nccl |-> FALSE, torch_lib |-> FALSE, listing |-> <<>>]
SystemFs == [system_nccl |-> TRUE, torch_lib |-> FALSE, listing |-> <<>>]
TorchOk == [ok |-> TRUE, type |-> "", msg |-> <<>>]

\* entries torch's lib directory may hold; the second is a dangling symlink
DirPool ==
  {[name |-> <<"libnccl", ".so", ".2">>, exists |-> TRUE],
   [name |-> <<"libnccl", ".so">>, exists |-> FALSE],
   [name |-> <<"libnccl", "_static", ".a">>, exists |-> TRUE],
   [name |-> <<"libcudart", ".so", ".12">>, exists |-> TRUE]}

FileSystems ==
  {[system_nccl |-> s, torch_lib |-> FALSE, listing |-> <<>>] : s \in BOOLEAN}
  \cup {[system_nccl |-> s, torch_lib |-> TRUE, listing |-> l] :
          s \in BOOLEAN, l \in VarSeqs(DirPool, MaxDirEntries)}

LdEnvirons ==
  {p \o l : p \in {<<>>, <<Var(LD_PRELOAD, <<>>)>>, <<Var(LD_PRELOAD, CustomPreload)>>},
            l \in {<<>>, <<Var(LD_LIBRARY_PATH, PriorLdPath)>>}}

TorchMessages ==
  {<<"No module named 'torch'">>,
   <<"libtorch_cuda.so: ", "undefined symbol", ": ", "ncclGroupSimulateEnd">>,
   <<"libc10.so: ", "undefined symbol", ": cudaGetDevice">>,
   <<"ncclGroupSimulateEnd", " not found">>}

TorchOutcomes ==
  {TorchOk} \cup {[ok |-> FALSE, type |-> t, msg |-> m] :
                    t \in DOMAIN ExceptionMro, m \in TorchMessages}

Input(e, f, files, m, a, t) ==
  [environ |-> e, dotenv |-> f, fs |-> files, machine |-> m, available |-> a,
   torch |-> t]

\* the preload step and the import of torch
LoaderInputs ==
  {Input(e, <<>>, files, m, FALSE, t) :
     e \in LdEnvirons, files \in FileSystems, m \in {"x86_64", "aarch64"},
     t \in TorchOutcomes}

WhisperPool ==
  {Var(DEVICE, v) : v \in {Device_cpu, Device_cuda, Bogus}}
  \cup {Var(Lower(DEVICE), v) : v \in {Device_cpu, Device_cuda}}
  \cup {Var(Nested(whisper, DEVICE), v) : v \in {Device_cpu, Device_cuda}}
  \cup {Var(COMPUTE_TYPE, v) : v \in ComputeType}
  \cup {Var(Lower(COMPUTE_TYPE), ComputeType_float32),
        Var(Nested(whisper, COMPUTE_TYPE), ComputeType_float16)}

WhisperFilePool ==
  {Var(DEVICE, Bogus), Var(Nested(whisper, DEVICE), Device_cpu),
   Var(Nested(whisper, COMPUTE_TYPE), ComputeType_float32)}

\* DEVICE and COMPUTE_TYPE, in every place they can be given
WhisperInputs ==
  {Input(e, f, NoFs, "x86_64", a, TorchOk) :
     e \in VarSeqs(WhisperPool, MaxEnvVars),
     f \in VarSeqs(WhisperFilePool, MaxFileVars), a \in BOOLEAN}

SourcePool ==
  {Var(DB_URL, LiveUrl), Var(Lower(DB_URL), LowerUrl),
   Var(Nested(database, DB_URL), NestedUrl),
   Var(LOG_LEVEL, <<"D", "E", "B", "U", "G">>),
   Var(Lower(LOG_LEVEL), <<"d", "e", "b", "u", "g">>)}

SourceFilePool ==
  {Var(DB_URL, FileUrl), Var(Nested(database, DB_URL), FileUrl),
   Var(Nested(logging, LOG_LEVEL), <<"W", "A", "R", "N">>)}

\* the string fields of the nested groups, live and in the .env file
SourceInputs ==
  {Input(e, f, NoFs, "x86_64", FALSE, TorchOk) :
     e \in VarSeqs(SourcePool, MaxEnvVars),
     f \in VarSeqs(SourceFilePool, MaxFileVars)}

EnvAlphabet == {"P", "d"}

EnvironmentPool ==
  {Var(ENVIRONMENT, v) : v \in Strings(EnvAlphabet, MaxStrLen)}
  \cup {Var(Lower(ENVIRONMENT), <<"P">>)}

EnvironmentFilePool == {Var(ENVIRONMENT, <<"P", "d">>), Var(ENVIRONMENT, <<>>)}

\* ENVIRONMENT, live and in the .env file
EnvironmentInputs ==
  {Input(e, f, NoFs, "x86_64", FALSE, TorchOk) :
     e \in VarSeqs(EnvironmentPool, MaxEnvVars),
     f \in VarSeqs(EnvironmentFilePool, MaxFileVars)}

LoadInputs == LoaderInputs \cup WhisperInputs \cup SourceInputs \cup EnvironmentInputs

\* processes followed past module load, into the application's threads
LifetimeInputs ==
  {Input(e, <<>>, files, "x86_64", a, t) :
     e \in {<<>>, <<Var(DEVICE, Device_cpu)>>, <<Var(DEVICE, Device_cuda)>>,
            <<Var(DEVICE, Bogus)>>, <<Var(ENVIRONMENT, <<"D", "e", "v">>)>>},
     files \in {NoFs, SystemFs}, a \in BOOLEAN,
     t \in {TorchOk, [ok |-> FALSE, type |-> "ImportError",
                      msg |-> <<"No module named 'torch'">>]}}

\* ------------------------------------------------------------ specification

InitFrom(inputs) ==
  \E i \in inputs :
    /\ environ = i.environ
    /\ start = i.environ
    /\ dotenv = i.dotenv
    /\ fs = i.fs
    /\ machine = i.machine
    /\ available = i.available
    /\ torch = i.torch
    /\ pc = [c \in Callers |-> IF c = "main" THEN "preload" ELSE "idle"]
    /\ local = [c \in Callers |-> 0]
    /\ calls = [w \in Workers |-> 0]
    /\ heap = <<>>
    /\ built = <<>>
    /\ cache = 0
    /\ returned = {}
    /\ Config = <<>>
    /\ exc = NoException
    /\ envChanges = 0
    /\ seen = [c \in Callers |-> 0]

Init == InitFrom(LifetimeInputs)

InitLoad == InitFrom(LoadInputs)

\* the import of the module, by the importing thread alone
NextLoad ==
  \/ PreloadStep
  \/ ImportTorch
  \/ ConfigGetSettings
  \/ GsLookup("main")
  \/ GsConstruct("main")
  \/ GsStore("main")
  \/ ConfigDefine

\* the process: the import, then the application's threads
Next ==
  \/ PreloadStep
  \/ ImportTorch
  \/ ConfigGetSettings
  \/ \E c \in Callers : GsLookup(c)
  \/ \E c \in Callers : GsConstruct(c)
  \/ \E c \in Callers : GsStore(c)
  \/ ConfigDefine
  \/ \E w \in Workers : WorkerCall(w)
  \/ \E w \in Workers : WorkerReturn(w)
  \/ SetEnv

Spec == Init /\ [][Next]_vars

SpecLoad == InitLoad /\ [][NextLoad]_vars

\* ------------------------------------------------------------------ claims

HasUpper(s) == \E i \in DOMAIN s : IsUpperChar(s[i])

\* a variable of the place (live environment or .env file) is named name
Has(place, name) == \E i \in DOMAIN place : place[i].name = name

\* the values the place gives under name
ValuesOf(place, name) == {place[i].value : i \in {j \in DOMAIN place : place[j].name = name}}

\* the importing thread is past the point where get_settings() returned
MainHasSettings == pc["main"] \in {"store", "ret", "loaded"}

NothingExposed == heap = <<>> /\ cache = 0 /\ returned = {} /\ Config = <<>>

\* C1: once get_settings() has succeeded (its result is cached), no step of
\* the process, os.environ writes included, changes the cached instance,
\* constructs another Settings, alters an instance's fields or lets a call
\* return anything but the cached instance, and the cached instance holds
\* the values read from the environment it was constructed from.
C1_SingletonStable ==
  [][cache # 0 =>
       /\ cache' = cache
       /\ heap' = heap
       /\ returned' \subseteq {cache}
       /\ <<heap'[cache']>> = Settings(built[cache].environ, built[cache].dotenv)]_vars

\* a worker's call that looked the cache up after os.environ was changed to
\* something a fresh Settings() would read differently has returned
C1_Witness ==
  /\ cache # 0
  /\ envChanges >= 1
  /\ Settings(environ, dotenv) # <<heap[cache]>>
  /\ \E w \in Workers : calls[w] >= 1 /\ seen[w] >= 1 /\ local[w] = cache

\* C2: every constructed instance whose DEVICE is cpu has COMPUTE_TYPE int8,
\* and a validation failure is never due to the cpu/compute-type mismatch:
\* it needs a DEVICE or COMPUTE_TYPE value outside the enums.
C2_CpuForcesInt8 ==
  /\ \A i \in DOMAIN heap :
       heap[i].whisper.DEVICE = Device_cpu =>
         heap[i].whisper.COMPUTE_TYPE = ComputeType_int8
  /\ (pc["main"] = "failed" /\ exc.type = "ValidationError") =>
       \E i \in DOMAIN environ \cup DOMAIN dotenv :
         \/ i \in DOMAIN environ /\ environ[i].value \notin Device \cup ComputeType
         \/ i \in DOMAIN dotenv /\ dotenv[i].value \notin Device \cup ComputeType

\* an instance on cpu for which float16 or float32 was requested
C2_Witness ==
  \E i \in DOMAIN heap :
    /\ heap[i].whisper.DEVICE = Device_cpu
    /\ heap[i].whisper.COMPUTE_TYPE = ComputeType_int8
    /\ ValuesOf(built[i].environ, COMPUTE_TYPE)
         \cap {ComputeType_float16, ComputeType_float32} # {}
    /\ ~Has(built[i].environ, Nested(whisper, COMPUTE_TYPE))
    /\ ~Has(built[i].dotenv, Nested(whisper, COMPUTE_TYPE))

\* no COMPUTE_TYPE was given to the construction, in any place or spelling
NoComputeTypeGiven(b) ==
  /\ \A i \in DOMAIN b.environ :
       /\ Lower(b.environ[i].name) # Lower(COMPUTE_TYPE)
       /\ b.environ[i].name # Nested(whisper, COMPUTE_TYPE)
  /\ ~Has(b.dotenv, Nested(whisper, COMPUTE_TYPE))

\* C3 as stated: DEVICE cuda and no COMPUTE_TYPE given make COMPUTE_TYPE
\* float16, whatever the accelerator probe reports.
C3_Original ==
  \A i \in DOMAIN heap :
    (heap[i].whisper.DEVICE = Device_cuda /\ NoComputeTypeGiven(built[i])) =>
      heap[i].whisper.COMPUTE_TYPE = ComputeType_float16

\* C3 amended: with DEVICE cuda and no COMPUTE_TYPE given, COMPUTE_TYPE is
\* float16 when the probe reports an accelerator and int8 when it does not.
C3_CudaDefaultFollowsProbe ==
  \A i \in DOMAIN heap :
    (heap[i].whisper.DEVICE = Device_cuda /\ NoComputeTypeGiven(built[i])) =>
      heap[i].whisper.COMPUTE_TYPE =
        (IF available THEN ComputeType_float16 ELSE ComputeType_int8)

\* DEVICE=cuda given explicitly on a host without accelerator, no COMPUTE_TYPE
C3_Witness ==
  \E i \in DOMAIN heap :
    /\ heap[i].whisper.DEVICE = Device_cuda
    /\ NoComputeTypeGiven(built[i])
    /\ ~available
    /\ Has(built[i].environ, DEVICE)

\* the live environment holds DEVICE with a value outside {cpu, cuda}
BogusDevice ==
  \E i \in DOMAIN environ : environ[i].name = DEVICE /\ environ[i].value \notin Device

\* C4 as stated: a live DEVICE outside {cpu, cuda} makes construction fail:
\* get_settings() does not return, nothing is cached, Config is not created.
C4_Original == BogusDevice => (NothingExposed /\ ~MainHasSettings)

\* the spellings of database.DB_URL the spec recognises
DbUrlNames == {DB_URL, Nested(database, DB_URL)}

\* C5: when DB_URL is given both in the .env file and in the live
\* environment, flat or nested in either place, database.DB_URL holds a
\* live value.
C5_LiveWins ==
  \A i \in DOMAIN heap :
    LET live == UNION {ValuesOf(built[i].environ, n) : n \in DbUrlNames}
        file == UNION {ValuesOf(built[i].dotenv, n) : n \in DbUrlNames}
    IN (live # {} /\ file # {}) => heap[i].database.DB_URL \in live

\* C6: a string field keeps its default when no variable carries its exact
\* name (flat or nested), whatever variables differ from it in case only.
C6_CaseSensitive ==
  \A i \in DOMAIN heap :
    /\ (\A n \in DbUrlNames : ~Has(built[i].environ, n) /\ ~Has(built[i].dotenv, n))
         => heap[i].database.DB_URL = DefaultDbUrl
    /\ (\A n \in {LOG_LEVEL, Nested(logging, LOG_LEVEL)} :
          ~Has(built[i].environ, n) /\ ~Has(built[i].dotenv, n))
         => heap[i].logging.LOG_LEVEL = DefaultLogLevel
    /\ (~Has(built[i].environ, ENVIRONMENT) /\ ~Has(built[i].dotenv, ENVIRONMENT))
         => heap[i].ENVIRONMENT = DefaultEnvironment

\* the ENVIRONMENT value the construction was given: live first, then file
GivenEnvironment(b) ==
  IF Has(b.environ, ENVIRONMENT)
  THEN ValuesOf(b.environ, ENVIRONMENT)
  ELSE ValuesOf(b.dotenv, ENVIRONMENT)

\* C7: the ENVIRONMENT of every constructed Settings has no uppercase letter,
\* has the length of the given value when one is given and not empty, and is
\* "production" when the value is absent or empty.
C7_EnvironmentLowercase ==
  \A i \in DOMAIN heap :
    /\ ~HasUpper(heap[i].ENVIRONMENT)
    /\ \A v \in GivenEnvironment(built[i]) :
         IF v = <<>>
         THEN heap[i].ENVIRONMENT = DefaultEnvironment
         ELSE /\ Len(heap[i].ENVIRONMENT) = Len(v)
              /\ \A k \in DOMAIN v :
                   ~IsUpperChar(v[k]) => heap[i].ENVIRONMENT[k] = v[k]
    /\ GivenEnvironment(built[i]) = {} => heap[i].ENVIRONMENT = DefaultEnvironment

\* an instance built from a live ENVIRONMENT value with an uppercase letter
C7_Witness ==
  \E i \in DOMAIN heap :
    \E v \in ValuesOf(built[i].environ, ENVIRONMENT) :
      HasUpper(v) /\ Len(heap[i].ENVIRONMENT) = Len(v)

\* the failed import's exception is the original one, untouched
Propagated ==
  /\ exc.original
  /\ exc.type = torch.type
  /\ exc.msg = torch.msg
  /\ exc.cause = <<>>

\* the failed import's exception is the new ImportError, chained to the
\* original, with LD_PRELOAD and LD_LIBRARY_PATH ("not set" when absent) in it
Wrapped ==
  /\ ~exc.original
  /\ exc.type = "ImportError"
  /\ exc.cause = <<[type |-> torch.type, msg |-> torch.msg]>>
  /\ IsInfix(torch.msg, exc.msg)
  /\ IsInfix(<<"  LD_PRELOAD: ">>
               \o (IF Has(environ, LD_PRELOAD)
                   THEN (CHOOSE v \in ValuesOf(environ, LD_PRELOAD) : TRUE)
                   ELSE <<"not set">>) \o <<"\n">>, exc.msg)
  /\ IsInfix(<<"  LD_LIBRARY_PATH: ">>
               \o (IF Has(environ, LD_LIBRARY_PATH)
                   THEN (CHOOSE v \in ValuesOf(environ, LD_LIBRARY_PATH) : TRUE)
                   ELSE <<"not set">>) \o <<"\n">>, exc.msg)

HasMarker ==
  \E k \in DOMAIN torch.msg : torch.msg[k] \in {"ncclGroupSimulateEnd", "undefined symbol"}

ImportFailed == pc["main"] = "failed" /\ ~torch.ok

\* C8 as stated: a failed import whose message has a marker ends in the new
\* ImportError, whatever the exception's type; any other failure propagates.
C8_Original ==
  ImportFailed =>
    /\ IF HasMarker THEN Wrapped ELSE Propagated
    /\ NothingExposed

\* C8 amended: the new ImportError is raised when the failure is an
\* ImportError, OSError or RuntimeError (or a subclass) and its message has a
\* marker; every other failure propagates as the original exception.  No
\* settings are constructed in either case.
C8_ImportFailure ==
  ImportFailed =>
    /\ IF /\ HasMarker
          /\ torch.type \in {"ImportError", "ModuleNotFoundError", "OSError", "RuntimeError"}
       THEN Wrapped
       ELSE Propagated
    /\ NothingExposed

\* an OSError with a marker was wrapped while LD_PRELOAD was absent
C8_Witness ==
  /\ ImportFailed
  /\ torch.type = "OSError"
  /\ HasMarker
  /\ exc.type = "ImportError"
  /\ ~Has(environ, LD_PRELOAD)
  /\ Has(environ, LD_LIBRARY_PATH)

\* the value of a variable as the process started, <<>> when absent or empty
StartValue(name) ==
  IF Has(start, name) THEN CHOOSE v \in ValuesOf(start, name) : TRUE ELSE <<>>

SystemPath == <<"/usr/lib/", machine, "-linux-gnu", "/", "libnccl.so.2">>

TorchLibPath == <<"/usr/local/lib/python3.11/dist-packages/torch/lib">>

\* os.environ is as the preload step leaves it when it chooses lib in dir
PreloadedWith(lib, dir) ==
  /\ ValuesOf(environ, LD_PRELOAD) = {lib}
  /\ ValuesOf(environ, LD_LIBRARY_PATH) =
       {dir \o <<":">> \o TorchLibPath \o <<":", "/usr/local/cuda/lib64", ":">>
          \o StartValue(LD_LIBRARY_PATH)}

\* the first entry of torch's lib directory that matches libnccl*.so*
FirstBundled ==
  LET hits == {k \in DOMAIN fs.listing :
                 /\ fs.listing[k].name[1] = "libnccl"
                 /\ \E j \in 2..Len(fs.listing[k].name) : fs.listing[k].name[j] = ".so"}
  IN IF hits = {} THEN <<>> ELSE <<fs.listing[CHOOSE k \in hits : \A j \in hits : k <= j]>>

\* C9 as stated: after the preload step, the library found (the one at the
\* system path whenever it exists, else the first glob match in torch's lib
\* directory) is in LD_PRELOAD, and LD_LIBRARY_PATH is
\* <dir>:<torch lib>:<cuda lib64>:<prior>.
C9_Original ==
  pc["main"] # "preload" =>
    /\ fs.system_nccl =>
         PreloadedWith(SystemPath, <<"/usr/lib/", machine, "-linux-gnu">>)
    /\ (~fs.system_nccl /\ fs.torch_lib /\ FirstBundled # <<>>) =>
         PreloadedWith(TorchLibPath \o <<"/">> \o FirstBundled[1].name, TorchLibPath)

\* C9 amended: the step acts only when LD_PRELOAD is absent or empty at
\* load.  Then the system path is chosen whenever it exists, else the first
\* glob match in torch's lib directory; a chosen file that exists is put in
\* LD_PRELOAD and LD_LIBRARY_PATH becomes <dir>:<torch lib>:<cuda lib64>:
\* <prior>.  In every other case os.environ is left as it was.
C9_PreloadStep ==
  pc["main"] # "preload" =>
    IF StartValue(LD_PRELOAD) # <<>>
    THEN environ = start
    ELSE IF fs.system_nccl
    THEN PreloadedWith(SystemPath, <<"/usr/lib/", machine, "-linux-gnu">>)
    ELSE IF fs.torch_lib /\ FirstBundled # <<>> /\ FirstBundled[1].exists
    THEN PreloadedWith(TorchLibPath \o <<"/">> \o FirstBundled[1].name, TorchLibPath)
    ELSE environ = start

\* the system library is chosen although torch bundles one too, and the
\* prior LD_LIBRARY_PATH is kept as the suffix
C9_Witness ==
  /\ pc["main"] # "preload"
  /\ fs.system_nccl
  /\ FirstBundled # <<>>
  /\ FirstBundled[1].exists
  /\ ~Has(start, LD_PRELOAD)
  /\ Has(start, LD_LIBRARY_PATH)
  /\ ValuesOf(environ, LD_PRELOAD) = {SystemPath}

\* C10: in every interleaving of the threads' get_settings() calls, at most
\* one Settings is ever constructed, and every call in flight or completed
\* has the cached instance as its result.
C10_OneInstance ==
  /\ Len(heap) <= 1
  /\ Cardinality(returned) <= 1
  /\ \A c \in Callers : pc[c] \in {"store", "ret"} => local[c] = Len(heap)
  /\ \A w \in Workers : pc[w] \notin {"miss", "store"}
  /\ returned \subseteq {cache}

\* two threads are inside get_settings() at once, both with a result
C10_Witness ==
  /\ pc["w1"] = "ret"
  /\ pc["w2"] = "ret"
  /\ local["w1"] = local["w2"]
  /\ local["w1"] = cache
  /\ cache # 0

====
